---- MODULE Spec2Model ----
(***************************************************************************)
(* A model of the smilet quiz application.                                 *)
(*                                                                         *)
(*   Spec      the play session: QuizGame (src/unnamed/part_000), the      *)
(*             ResultsPage aggregation and the hand-over to DeepDive.      *)
(*   SpecGen   the direct-provider generateQuizQuestions (src/src/src/     *)
(*             App.tsx) with its simplified-prompt retry.                  *)
(*   SpecFn    the serverless generate-quiz handler                        *)
(*             (src/netlify/functions/generate-quiz.js) and the client     *)
(*             generateQuizQuestions that fetches it.                      *)
(*   SpecNorm  one generation request through either normalisation.        *)
(*   SpecHandlers  one request to generate-quiz or to generate-hint.       *)
(*   SpecHint  the client generateHint (services/geminiService.ts).        *)
(*   SpecTopic the topic screen: TopicInput (src/unnamed/part_001).        *)
(*   SpecWrap  the cleanup of a provider's text before JSON.parse.         *)
(*   SpecInstr getTopicSpecificInstructions (src/src/src/App.tsx).         *)
(*   SpecPlay  the play session from any location.state, the empty         *)
(*             question list and its built-in replacement included.        *)
(*   SpecLive  the play session that is not exited, with timers that       *)
(*             fire: weak fairness on the setTimeout callbacks.            *)
(*                                                                         *)
(* Arrays are functions over 0..n-1, so indices are those of the source.   *)
(* A React event is one action: the handler, the render it causes and the  *)
(* effects of that render (in declaration order), repeated until no state  *)
(* changes.                                                                *)
(***************************************************************************)
EXTENDS Integers, Sequences, FiniteSets

\* ------------------------------------------------------------------ bounds

\* The longest question list played.
MaxQuestions == 2

\* The longest questions array in a provider reply.
MaxReplyQuestions == 2

\* The explicit per-question timeLimit a question may carry.
MaxTimeLimit == 2

\* The number of times the topic screen is mounted.
MaxMounts == 2

\* The longest text put before, and after, a payload in a provider's text.
MaxWrapLen == 2

\* The number of words in a topic given to getTopicSpecificInstructions.
MaxTopicWords == 2

\* ------------------------------------------------------- program constants

\* handleAnswerSelect(-1): the "no answer" sentinel of the timer effect.
NoAnswer == -1

\* questions[i]?.timeLimit || 30
DefaultTimeLimit == 30

\* options.length !== 4 is rejected by validation; four answer buttons.
NumOptions == 4

\* ------------------------------------------------------------------- state

VARIABLES
    \* QuizGame
    questions,              \* useState(aiQuestions | fallback), never set again
    currentQuestionIndex,
    selectedAnswer,         \* {} is null, {i} is the number i
    showResult,
    score,
    timeLeft,
    answeredQuestions,
    userAnswers,
    advanceTimers,          \* pending setTimeout(..., 3000) callbacks, each its closure
    elapsed,                \* countdown ticks seen by the current question
    \* router
    route,                  \* the mounted screen
    resultsNav,             \* the states passed to navigate("/results"), in order
    lastEvent,              \* the last handler that ran
    \* DeepDive
    missed,                 \* location.state.missedQuestions
    hints,
    loadingIds,
    error,
    hintLoop,               \* position of the for..of loop over missed
    hintRequests,           \* generateHint calls made, in order
    \* generateQuizQuestions (direct provider)
    genPc,
    genRequest,             \* the arguments of the call
    genCalls,               \* the prompts given to model.generateContent, in order
    genReplies,             \* what the provider answered, in order
    genOutcome,             \* what the promise settled to
    \* generate-quiz handler
    fnPc,
    fnName,                 \* the function the request was routed to
    fnEvent,
    fnEnv,                  \* process.env
    fnCalls,
    fnReplies,
    fnResult,               \* the response returned
    \* the client service (geminiService.ts)
    cqResponse,             \* what generateQuizQuestions' fetch came to
    cqOutcome,              \* what generateQuizQuestions settled to
    hcPc,
    hcArgs,                 \* the arguments of generateHint
    hcReply,                \* what generateHint's fetch came to
    hcOutcome,              \* what generateHint settled to
    \* TopicInput
    topic,
    difficulty,
    isGenerating,
    topicError,             \* its error state: {} is null, {m} is the message m
    tiInstance,             \* the number of the mounted (or last mounted) instance
    submits,                \* the handleSubmit calls waiting at their await
    quizNav,                \* the states passed to navigate("/quiz"), in order
    \* a pure function at work
    fxInput,                \* its arguments
    fxOutput                \* its results

gameVars == <<questions, currentQuestionIndex, selectedAnswer, showResult, score,
              timeLeft, answeredQuestions, userAnswers, advanceTimers, elapsed>>
navVars == <<route, resultsNav, lastEvent>>
ddVars == <<missed, hints, loadingIds, error, hintLoop, hintRequests>>
genVars == <<genPc, genRequest, genCalls, genReplies, genOutcome>>
fnVars == <<fnPc, fnName, fnEvent, fnEnv, fnCalls, fnReplies, fnResult>>
clVars == <<cqResponse, cqOutcome, hcPc, hcArgs, hcReply, hcOutcome>>
tiVars == <<topic, difficulty, isGenerating, topicError, tiInstance, submits, quizNav>>
fxVars == <<fxInput, fxOutput>>
vars == <<gameVars, navVars, ddVars, genVars, fnVars, clVars, tiVars, fxVars>>

\* ---------------------------------------------------------------- QuizGame

\* The correctAnswer values a played question may carry: a valid index, and
\* the out-of-range -1 that the retry path of generateQuizQuestions (which
\* validates only the questions array) and navigation state let through.
CorrectAnswers == {NoAnswer, 1}

\* timeLimit 0 stands for an absent (or falsy) timeLimit.
TimeLimits == {0, MaxTimeLimit}

Question == [correctAnswer : CorrectAnswers, timeLimit : TimeLimits]

\* questions[i]?.timeLimit || 30
TimeBudget(q) == IF q.timeLimit # 0 THEN q.timeLimit ELSE DefaultTimeLimit

NumQuestions == Cardinality(DOMAIN questions)

\* The component state of one render.
Snapshot ==
    [currentQuestionIndex |-> currentQuestionIndex,
     selectedAnswer       |-> selectedAnswer,
     showResult           |-> showResult,
     score                |-> score,
     timeLeft             |-> timeLeft,
     answeredQuestions    |-> answeredQuestions,
     userAnswers          |-> userAnswers,
     advanceTimers        |-> advanceTimers,
     elapsed              |-> elapsed]

Commit(s) ==
    /\ currentQuestionIndex' = s.currentQuestionIndex
    /\ selectedAnswer' = s.selectedAnswer
    /\ showResult' = s.showResult
    /\ score' = s.score
    /\ timeLeft' = s.timeLeft
    /\ answeredQuestions' = s.answeredQuestions
    /\ userAnswers' = s.userAnswers
    /\ advanceTimers' = s.advanceTimers
    /\ elapsed' = s.elapsed
    /\ UNCHANGED questions

\* Mutant of AnswerLocked: the early return is missing.
AnswerNeverLocked(s) == FALSE

\* if (answeredQuestions[currentQuestionIndex] || showResult) return;
AnswerLocked(s) ==
    s.answeredQuestions[s.currentQuestionIndex] \/ s.showResult

\* Mutant of IsCorrect: every answer counts as correct.
IsCorrectAlways(answerIndex, idx) == TRUE

\* answerIndex === currentQuestion.correctAnswer
IsCorrect(answerIndex, idx) == answerIndex = questions[idx].correctAnswer

\* handleAnswerSelect as called from the render s: every value it reads, and
\* every value the auto-advance callback later reads, is that render's.
HandleAnswerSelect(s, answerIndex) ==
    IF AnswerLocked(s) THEN s
    ELSE LET idx == s.currentQuestionIndex
             closure == [currentQuestionIndex |-> idx,
                         answerIndex          |-> answerIndex,
                         score                |-> s.score,
                         answeredQuestions    |-> s.answeredQuestions,
                         userAnswers          |-> s.userAnswers]
         IN [s EXCEPT !.selectedAnswer = {answerIndex},
                      !.showResult = TRUE,
                      !.answeredQuestions[idx] = TRUE,
                      !.userAnswers[idx] = answerIndex,
                      !.score = IF IsCorrect(answerIndex, idx) THEN @ + 1 ELSE @,
                      !.advanceTimers = Append(@, closure)]

\* The timer effect's dependency list.
TimerDepsChanged(prev, s) ==
    \/ prev.timeLeft # s.timeLeft
    \/ prev.showResult # s.showResult
    \/ prev.answeredQuestions # s.answeredQuestions
    \/ prev.currentQuestionIndex # s.currentQuestionIndex

\* The timer effect of render s. Its first branch only arms the one-second
\* countdown (the Tick action); its second calls handleAnswerSelect(-1).
TimerEffect(prev, s) ==
    IF /\ TimerDepsChanged(prev, s)
       /\ s.timeLeft = 0
       /\ ~s.answeredQuestions[s.currentQuestionIndex]
       /\ ~s.showResult
    THEN HandleAnswerSelect(s, NoAnswer)
    ELSE s

\* The "update timer when question changes" effect of render s, declared
\* after the timer effect: s is the render it belongs to, acc the state
\* updates queued so far in this pass.
ResetEffect(prev, s, acc) ==
    IF prev.currentQuestionIndex # s.currentQuestionIndex
    THEN [acc EXCEPT !.timeLeft = TimeBudget(questions[s.currentQuestionIndex])]
    ELSE acc

\* One pass of the effects of render s, prev being the render before it.
Effects(prev, s) == ResetEffect(prev, s, TimerEffect(prev, s))

\* Render s and run effects until the state is stable.
RECURSIVE Render(_, _)
Render(prev, s) ==
    IF s = prev THEN s
    ELSE LET next == Effects(prev, s)
         IN IF next = s THEN s ELSE Render(s, next)

Mounted == route = "/quiz"

\* The one-second countdown armed by the timer effect fires.
Tick ==
    /\ Mounted
    /\ timeLeft > 0
    /\ ~showResult
    /\ ~answeredQuestions[currentQuestionIndex]
    /\ Commit(Render(Snapshot, [Snapshot EXCEPT !.timeLeft = @ - 1,
                                                !.elapsed = @ + 1]))
    /\ lastEvent' = [op |-> "tick", ignored |-> FALSE]
    /\ UNCHANGED <<route, resultsNav, ddVars, genVars, fnVars, clVars, tiVars, fxVars>>

\* An answer button's onClick.
Click(index) ==
    /\ Mounted
    /\ LET after == Render(Snapshot, HandleAnswerSelect(Snapshot, index))
       IN /\ Commit(after)
          /\ lastEvent' = [op |-> "handleAnswerSelect", ignored |-> after = Snapshot]
    /\ UNCHANGED <<route, resultsNav, ddVars, genVars, fnVars, clVars, tiVars, fxVars>>

\* Mutant of UserAnswerLabel: the final question's timeout gets a fourth
\* label.
UserAnswerLabelSkipped(t, i) ==
    IF i = t.currentQuestionIndex
    THEN IF t.answerIndex = NoAnswer THEN "skipped"
         ELSE IF IsCorrect(t.answerIndex, i) THEN "correct"
         ELSE "incorrect"
    ELSE IF t.answeredQuestions[i]
         THEN IF t.userAnswers[i] = questions[i].correctAnswer
              THEN "correct" ELSE "incorrect"
         ELSE "unanswered"

\* userAnswer of question i in the payload built by the callback with closure t.
UserAnswerLabel(t, i) ==
    IF i = t.currentQuestionIndex
    THEN IF t.answerIndex = NoAnswer THEN "unanswered"
         ELSE IF IsCorrect(t.answerIndex, i) THEN "correct"
         ELSE "incorrect"
    ELSE IF t.answeredQuestions[i]
         THEN IF t.userAnswers[i] = questions[i].correctAnswer
              THEN "correct" ELSE "incorrect"
         ELSE "unanswered"

\* Mutant of FinalScore: the last question's point is left out.
FinalScoreStale(t) == t.score

\* const finalScore = answerIndex === currentQuestion.correctAnswer ? score + 1 : score
FinalScore(t) ==
    IF IsCorrect(t.answerIndex, t.currentQuestionIndex) THEN t.score + 1 ELSE t.score

\* The state passed to navigate("/results"); questions.map gives one entry
\* per question, here entry i + 1 for question i.
ResultsState(t) ==
    [score          |-> FinalScore(t),
     totalQuestions |-> NumQuestions,
     questions      |-> [k \in 1..NumQuestions |->
                            [id            |-> k - 1,
                             correctAnswer |-> questions[k - 1].correctAnswer,
                             userAnswer    |-> UserAnswerLabel(t, k - 1)]]]

\* The 3000 ms callback scheduled by handleAnswerSelect fires and moves on.
\* Nothing cancels it: it also fires after the component has unmounted,
\* when its state setters do nothing.
AdvanceNext ==
    /\ advanceTimers # <<>>
    /\ LET t == Head(advanceTimers)
           popped == [Snapshot EXCEPT !.advanceTimers = Tail(@)]
       IN /\ t.currentQuestionIndex < NumQuestions - 1
          /\ IF Mounted
             THEN Commit(Render(Snapshot,
                    [popped EXCEPT !.currentQuestionIndex = t.currentQuestionIndex + 1,
                                   !.selectedAnswer = {},
                                   !.showResult = FALSE,
                                   !.elapsed = 0]))
             ELSE Commit(popped)
    /\ lastEvent' = [op |-> "advance", ignored |-> ~Mounted]
    /\ UNCHANGED <<route, resultsNav, ddVars, genVars, fnVars, clVars, tiVars, fxVars>>

\* The 3000 ms callback of the last question fires: navigate("/results").
AdvanceComplete ==
    /\ advanceTimers # <<>>
    /\ LET t == Head(advanceTimers)
       IN /\ ~(t.currentQuestionIndex < NumQuestions - 1)
          /\ resultsNav' = Append(resultsNav, ResultsState(t))
          /\ Commit([Snapshot EXCEPT !.advanceTimers = Tail(@)])
    /\ route' = "/results"
    /\ lastEvent' = [op |-> "complete", ignored |-> FALSE]
    /\ UNCHANGED <<ddVars, genVars, fnVars, clVars, tiVars, fxVars>>

\* The Exit Quiz button: navigate("/").
ExitQuiz ==
    /\ Mounted
    /\ route' = "/"
    /\ lastEvent' = [op |-> "exit", ignored |-> FALSE]
    /\ UNCHANGED <<gameVars, resultsNav, ddVars, genVars, fnVars, clVars, tiVars, fxVars>>

\* ------------------------------------------------------------- ResultsPage

LocationState == resultsNav[Len(resultsNav)]

IsCorrectResult(q) == q.userAnswer = "correct"
IsIncorrectResult(q) == q.userAnswer = "incorrect"
IsUnansweredResult(q) == q.userAnswer = "unanswered"

correctAnswers(st) == Len(SelectSeq(st.questions, IsCorrectResult))
incorrectAnswers(st) == Len(SelectSeq(st.questions, IsIncorrectResult))
unansweredQuestions(st) == Len(SelectSeq(st.questions, IsUnansweredResult))
missedQuestions(st) == SelectSeq(st.questions, IsIncorrectResult)

\* ---------------------------------------------------------------- DeepDive

\* The fallback of the client generateHint.
FallbackHint == "Think about the key concepts"

\* What the fetch of generate-hint may come to: a network error, or a
\* response with its ok flag and the hint of its body ("" when the body has
\* none; "unparseable" when response.json() rejects).
HintReplies ==
    {[kind |-> "networkError", ok |-> FALSE, hint |-> ""]}
    \cup [kind : {"response"}, ok : BOOLEAN, hint : {"", "unparseable", "a hint"}]

\* Mutant of GenerateHint: the hint of a 2xx body is returned as it is.
GenerateHintNoDefault(reply) ==
    IF reply.kind = "networkError" THEN FallbackHint
    ELSE IF ~reply.ok THEN FallbackHint
    ELSE IF reply.hint = "unparseable" THEN FallbackHint
    ELSE reply.hint

\* generateHint of the client service: one fetch, never a rejection.
GenerateHint(reply) ==
    IF reply.kind = "networkError" THEN FallbackHint
    ELSE IF ~reply.ok THEN FallbackHint
    ELSE IF reply.hint = "unparseable" THEN FallbackHint
    ELSE IF reply.hint = "" THEN FallbackHint
    ELSE reply.hint

\* Mutant of HintPromise: a failed fetch rejects the promise.
HintPromiseRejects(reply) ==
    IF reply.kind = "networkError"
    THEN [status |-> "rejected", value |-> ""]
    ELSE [status |-> "fulfilled", value |-> GenerateHint(reply)]

\* The promise generateHint returns: every path of its try and its catch
\* returns a string.
HintPromise(reply) == [status |-> "fulfilled", value |-> GenerateHint(reply)]

\* q.options of a question: the texts of its four answer options, option i
\* at position i + 1.
OptionTexts == <<"option 0", "option 1", "option 2", "option 3">>

\* typeof q.userAnswer === "number" ? q.options[q.userAnswer] : String(q.userAnswer)
\* The userAnswer of a ResultsPage entry is always one of the three labels,
\* never a number, so the text is the label itself.
UserAnsText(q) == q.userAnswer

\* Mutant of HintIteration: the first iteration issues the requests of all
\* the missed questions at once.
HintIterationConcurrent(pos, ids, reqs) ==
    IF pos = 0
    THEN /\ loadingIds' = [k \in 1..Len(missed') |-> missed'[k].id]
         /\ hintRequests' = [k \in 1..Len(missed') |->
                                [id         |-> missed'[k].id,
                                 userAnswer |-> UserAnsText(missed'[k])]]
    ELSE /\ loadingIds' = ids
         /\ hintRequests' = reqs

\* The next iteration of for (const q of missed), up to its await.
HintIteration(pos, ids, reqs) ==
    IF pos < Len(missed')
    THEN /\ loadingIds' = Append(ids, missed'[pos + 1].id)
         /\ hintRequests' = Append(reqs, [id         |-> missed'[pos + 1].id,
                                          userAnswer |-> UserAnsText(missed'[pos + 1])])
    ELSE /\ loadingIds' = ids
         /\ hintRequests' = reqs

RemoveId(ids, id) == SelectSeq(ids, LAMBDA x : x # id)

\* The Deep Dive button of ResultsPage, and DeepDive's effect up to its
\* first await.
OpenDeepDive ==
    /\ route = "/results"
    /\ route' = "/deep-dive"
    /\ missed' = missedQuestions(LocationState)
    /\ hintLoop' = 0
    /\ HintIteration(0, <<>>, <<>>)
    /\ hints' = <<>>
    /\ error' = {}
    /\ lastEvent' = [op |-> "deepDive", ignored |-> FALSE]
    /\ UNCHANGED <<gameVars, resultsNav, genVars, fnVars, clVars, tiVars, fxVars>>

\* The awaited generateHint settles; the loop stores the hint and goes on
\* to its next await, or the catch sets the error and the loop is over.
HintSettles(reply) ==
    /\ route = "/deep-dive"
    /\ hintLoop < Len(missed)
    /\ error = {}
    /\ LET q == missed[hintLoop + 1]
           promise == HintPromise(reply)
       IN IF promise.status = "fulfilled"
          THEN /\ hints' = Append(hints, [id |-> q.id, hint |-> promise.value])
               /\ UNCHANGED missed
               /\ HintIteration(hintLoop + 1, RemoveId(loadingIds, q.id), hintRequests)
               /\ hintLoop' = hintLoop + 1
               /\ UNCHANGED error
          ELSE /\ error' = {"Failed to fetch hints. Please try again later."}
               /\ UNCHANGED <<missed, hints, loadingIds, hintLoop, hintRequests>>
    /\ lastEvent' = [op |-> "hint", ignored |-> FALSE]
    /\ UNCHANGED <<gameVars, route, resultsNav, genVars, fnVars, clVars, tiVars, fxVars>>

\* ------------------------------------------------- the provider's replies

\* One element of a parsed questions array: its question text, the length
\* of its options array and its correctAnswer.
WellFormedQuestion == [question |-> "Q", numOptions |-> NumOptions, correctAnswer |-> 1]

RawQuestions ==
    {WellFormedQuestion,
     [WellFormedQuestion EXCEPT !.question = ""],
     [WellFormedQuestion EXCEPT !.numOptions = NumOptions - 1],
     [WellFormedQuestion EXCEPT !.correctAnswer = NoAnswer],
     [WellFormedQuestion EXCEPT !.correctAnswer = NumOptions]}

QuestionArrays ==
    UNION {[1..n -> RawQuestions] : n \in 0..MaxReplyQuestions}

\* A value JSON.parse may return: whether it has a truthy questions field,
\* whether that field is an array, and the array.
NoQuestionsField == [hasQuestions |-> FALSE, isArray |-> FALSE, questions |-> <<>>]

ParsedValues ==
    {NoQuestionsField,
     [hasQuestions |-> TRUE, isArray |-> FALSE, questions |-> <<>>]}
    \cup [hasQuestions : {TRUE}, isArray : {TRUE}, questions : QuestionArrays]

\* What model.generateContent may come to: it throws, or it gives a text.
\* A text has no "{" ... "}" pair ("nobraces"), or a pair whose slice
\* JSON.parse rejects ("garbage"), or a slice that parses to data ("json").
ProviderReplies ==
    {[kind |-> "error", shape |-> "none", data |-> NoQuestionsField],
     [kind |-> "text", shape |-> "nobraces", data |-> NoQuestionsField],
     [kind |-> "text", shape |-> "garbage", data |-> NoQuestionsField]}
    \cup [kind : {"text"}, shape : {"json"}, data : ParsedValues]

\* The cleanup, the slice between the first "{" and the last "}", and
\* JSON.parse: without a brace pair the text is parsed as it is, and throws.
ParseReply(reply) ==
    IF reply.shape = "json"
    THEN [ok |-> TRUE, data |-> reply.data]
    ELSE [ok |-> FALSE, data |-> NoQuestionsField]

\* Mutant of HasQuestionsArray: the Array.isArray test is left out.
HasQuestionsField(data) == data.hasQuestions

\* !quizData.questions || !Array.isArray(quizData.questions) does not hold.
HasQuestionsArray(data) == data.hasQuestions /\ data.isArray

\* The per-question checks of the forEach.
ValidQuestion(q) ==
    /\ q.question # ""
    /\ q.numOptions = NumOptions
    /\ q.correctAnswer >= 0
    /\ q.correctAnswer <= NumOptions - 1

\* "Validate the structure" and "Validate each question".
ValidQuiz(data) ==
    /\ HasQuestionsArray(data)
    /\ \A k \in 1..Len(data.questions) : ValidQuestion(data.questions[k])

\* -------------------------------------------- getTopicSpecificInstructions

\* A topic is a sequence of words; these are the words, in the letter case
\* the user typed.
TopicWords ==
    {"Software", "Testing", "JAVASCRIPT", "programming", "Performance",
     "optimization", "history"}

TopicTexts == UNION {[1..n -> TopicWords] : n \in 1..MaxTopicWords}

\* toLowerCase, word by word.
ToLowerCase(w) ==
    CASE w = "Software"    -> "software"
      [] w = "Testing"     -> "testing"
      [] w = "JAVASCRIPT"  -> "javascript"
      [] w = "Performance" -> "performance"
      [] OTHER             -> w

\* topicLower.includes(phrase), for a phrase of one or more words.
Includes(text, phrase) ==
    \E i \in 1..(Len(text) - Len(phrase) + 1) :
        \A j \in 1..Len(phrase) : ToLowerCase(text[i + j - 1]) = phrase[j]

\* Mutant of GetTopicSpecificInstructions: the performance family is tested
\* before the programming family.
GetTopicSpecificInstructionsPerformanceFirst(text, level) ==
    IF Includes(text, <<"software", "testing">>) \/ Includes(text, <<"testing">>)
    THEN IF level = "hard" THEN "FOR SOFTWARE TESTING (Hard)"
         ELSE IF level = "medium" THEN "FOR SOFTWARE TESTING (Medium)"
         ELSE "FOR SOFTWARE TESTING (Easy)"
    ELSE IF (Includes(text, <<"performance">>) \/ Includes(text, <<"optimization">>))
            /\ level = "hard"
    THEN "FOR PERFORMANCE TOPICS (Hard)"
    ELSE IF (Includes(text, <<"javascript">>) \/ Includes(text, <<"programming">>))
            /\ level = "hard"
    THEN "FOR PROGRAMMING (Hard)"
    ELSE IF level = "hard"
    THEN "FOR TECHNICAL TOPICS (Hard)"
    ELSE "Focus on practical applications and real-world scenarios."

\* The instructions returned, by their first line.
GetTopicSpecificInstructions(text, level) ==
    IF Includes(text, <<"software", "testing">>) \/ Includes(text, <<"testing">>)
    THEN IF level = "hard" THEN "FOR SOFTWARE TESTING (Hard)"
         ELSE IF level = "medium" THEN "FOR SOFTWARE TESTING (Medium)"
         ELSE "FOR SOFTWARE TESTING (Easy)"
    ELSE IF (Includes(text, <<"javascript">>) \/ Includes(text, <<"programming">>))
            /\ level = "hard"
    THEN "FOR PROGRAMMING (Hard)"
    ELSE IF (Includes(text, <<"performance">>) \/ Includes(text, <<"optimization">>))
            /\ level = "hard"
    THEN "FOR PERFORMANCE TOPICS (Hard)"
    ELSE IF level = "hard"
    THEN "FOR TECHNICAL TOPICS (Hard)"
    ELSE "Focus on practical applications and real-world scenarios."

\* getTopicSpecificInstructions is called.
ApplyInstructions(text, level) ==
    /\ fxInput = <<>>
    /\ fxInput' = [topic |-> text, difficulty |-> level]
    /\ fxOutput' = [instructions |-> GetTopicSpecificInstructions(text, level)]
    /\ UNCHANGED <<gameVars, navVars, ddVars, genVars, fnVars, clVars, tiVars>>

\* ----------------------------------------------- the response text cleanup

\* A provider's text as a sequence of pieces: the two fences (three backticks,
\* with and without json after them), a run
\* of white space, a piece of prose without braces, commas or fences, a
\* comma, and the two braces.
WrapTokens == {"fence json", "fence", " ", "prose", ",", "{", "}"}

Wraps == UNION {[1..n -> WrapTokens] : n \in 0..MaxWrapLen}

\* A well-formed quiz payload on its own, and the value it parses to.
Payload == <<"{", "questions", "}">>

PayloadData ==
    [hasQuestions |-> TRUE, isArray |-> TRUE, questions |-> <<WellFormedQuestion>>]

RECURSIVE TrimStart(_)
TrimStart(t) == IF t # <<>> /\ Head(t) = " " THEN TrimStart(Tail(t)) ELSE t

RECURSIVE TrimEnd(_)
TrimEnd(t) ==
    IF t # <<>> /\ t[Len(t)] = " " THEN TrimEnd(SubSeq(t, 1, Len(t) - 1)) ELSE t

\* String.prototype.trim
TrimText(t) == TrimEnd(TrimStart(t))

\* startsWith of the json fence or of the bare fence: the opener and the white space
\* after it go, and so does a fence at the very end with the white space
\* before it.
StripFence(t) ==
    IF t # <<>> /\ Head(t) \in {"fence json", "fence"}
    THEN LET a == TrimStart(Tail(t))
         IN IF a # <<>> /\ a[Len(a)] = "fence"
            THEN TrimEnd(SubSeq(a, 1, Len(a) - 1))
            ELSE a
    ELSE t

RECURSIVE FollowedByClose(_)
FollowedByClose(t) ==
    IF t = <<>> THEN FALSE
    ELSE IF Head(t) = " " THEN FollowedByClose(Tail(t))
    ELSE Head(t) = "}"

\* replace(/,(\s*[}\]])/g, "$1")
RECURSIVE RemoveTrailingCommas(_)
RemoveTrailingCommas(t) ==
    IF t = <<>> THEN <<>>
    ELSE IF Head(t) = "," /\ FollowedByClose(Tail(t))
    THEN RemoveTrailingCommas(Tail(t))
    ELSE <<Head(t)>> \o RemoveTrailingCommas(Tail(t))

\* The text after the fence removal and the replacements; the pieces here
\* hold no smart quotes and no blank lines, which the other replacements
\* are for.
Cleanup(t) == TrimText(RemoveTrailingCommas(StripFence(TrimText(t))))

\* indexOf("{") and lastIndexOf("}"), from 1; 0 when there is none.
IndexOfOpen(t) ==
    IF \E i \in 1..Len(t) : t[i] = "{"
    THEN CHOOSE i \in 1..Len(t) : t[i] = "{" /\ \A j \in 1..(i - 1) : t[j] # "{"
    ELSE 0

LastIndexOfClose(t) ==
    IF \E i \in 1..Len(t) : t[i] = "}"
    THEN CHOOSE i \in 1..Len(t) : t[i] = "}" /\ \A j \in (i + 1)..Len(t) : t[j] # "}"
    ELSE 0

HasBracePair(t) ==
    IndexOfOpen(t) # 0 /\ LastIndexOfClose(t) # 0 /\ LastIndexOfClose(t) > IndexOfOpen(t)

\* "Find the JSON object boundaries"
BraceSlice(t) ==
    IF HasBracePair(t) THEN SubSeq(t, IndexOfOpen(t), LastIndexOfClose(t)) ELSE t

\* JSON.parse accepts the payload, with white space around its pieces, and
\* nothing else that these pieces can make.
JsonParses(t) == SelectSeq(t, LAMBDA x : x # " ") = Payload

\* The provider's reply a text amounts to.
TextReply(t) ==
    LET slice == BraceSlice(Cleanup(t))
    IN IF JsonParses(slice)
       THEN [kind |-> "text", shape |-> "json", data |-> PayloadData]
       ELSE IF HasBracePair(Cleanup(t))
       THEN [kind |-> "text", shape |-> "garbage", data |-> NoQuestionsField]
       ELSE [kind |-> "text", shape |-> "nobraces", data |-> NoQuestionsField]

\* The cleanup, the slice and JSON.parse of a text.
NormalizeText(t) == ParseReply(TextReply(t))

\* The cleanup is applied to the payload between two texts, and to the
\* payload alone.
ApplyCleanup(leading, trailing) ==
    /\ fxInput = <<>>
    /\ fxInput' = [leading |-> leading, trailing |-> trailing]
    /\ fxOutput' = [wrapped |-> NormalizeText(leading \o Payload \o trailing),
                    bare    |-> NormalizeText(Payload)]
    /\ UNCHANGED <<gameVars, navVars, ddVars, genVars, fnVars, clVars, tiVars>>

\* ---------------------------------- generateQuizQuestions (direct provider)

Difficulties == {"easy", "medium", "hard"}

\* difficulty = "medium", numQuestions = 10 when the argument is absent
\* (modelled as "" and 0).
DefaultNumQuestions == 10

WithDefaults(args) ==
    [topic        |-> args.topic,
     difficulty   |-> IF args.difficulty = "" THEN "medium" ELSE args.difficulty,
     numQuestions |-> IF args.numQuestions = 0 THEN DefaultNumQuestions
                      ELSE args.numQuestions]

Prompt(variant, req) ==
    [variant |-> variant, topic |-> req.topic, difficulty |-> req.difficulty,
     numQuestions |-> req.numQuestions]

GenArguments ==
    [topic : {"Software Testing"}, difficulty : Difficulties \cup {""},
     numQuestions : {0, 1, MaxReplyQuestions}]

GenSettle(outcome) ==
    /\ genPc' = "done"
    /\ genOutcome' = outcome

GenFailure(message) ==
    [status |-> "error", message |-> message, data |-> NoQuestionsField]

GenSuccess(data) ==
    [status |-> "ok", message |-> "", data |-> data]

\* generateQuizQuestions is called: the prompt is built and given to the
\* provider.
GenCall(args) ==
    /\ genPc = "idle"
    /\ genRequest' = WithDefaults(args)
    /\ genCalls' = <<Prompt("full", WithDefaults(args))>>
    /\ genPc' = "awaitFirst"
    /\ UNCHANGED <<genReplies, genOutcome>>
    /\ UNCHANGED <<gameVars, navVars, ddVars, fnVars, clVars, tiVars, fxVars>>

\* Mutant of GenFirstReply: an unusable first reply fails the call at once.
GenFirstReplyNoRetry(reply) ==
    /\ genPc = "awaitFirst"
    /\ genReplies' = Append(genReplies, reply)
    /\ UNCHANGED <<genRequest, genCalls>>
    /\ UNCHANGED <<gameVars, navVars, ddVars, fnVars, clVars, tiVars, fxVars>>
    /\ LET parsed == ParseReply(reply)
       IN IF reply.kind = "text" /\ parsed.ok /\ ValidQuiz(parsed.data)
          THEN GenSettle(GenSuccess(parsed.data))
          ELSE GenSettle(GenFailure("Failed to generate quiz questions"))

\* Mutant of GenFirstReply: a provider error is retried like an unusable text.
GenFirstReplyRetriesOnError(reply) ==
    /\ genPc = "awaitFirst"
    /\ genReplies' = Append(genReplies, reply)
    /\ UNCHANGED genRequest
    /\ UNCHANGED <<gameVars, navVars, ddVars, fnVars, clVars, tiVars, fxVars>>
    /\ LET parsed == ParseReply(reply)
       IN IF reply.kind = "text" /\ parsed.ok /\ ValidQuiz(parsed.data)
          THEN /\ GenSettle(GenSuccess(parsed.data))
               /\ UNCHANGED genCalls
          ELSE /\ genCalls' = Append(genCalls, Prompt("simple", genRequest))
               /\ genPc' = "awaitRetry"
               /\ UNCHANGED genOutcome

\* The first generateContent settles: the outer catch on a provider error,
\* the validated quiz, or the retry with the simplified prompt.
GenFirstReply(reply) ==
    /\ genPc = "awaitFirst"
    /\ genReplies' = Append(genReplies, reply)
    /\ UNCHANGED genRequest
    /\ UNCHANGED <<gameVars, navVars, ddVars, fnVars, clVars, tiVars, fxVars>>
    /\ IF reply.kind = "error"
       THEN /\ GenSettle(GenFailure("Failed to generate quiz questions: provider error"))
            /\ UNCHANGED genCalls
       ELSE LET parsed == ParseReply(reply)
            IN IF parsed.ok /\ ValidQuiz(parsed.data)
               THEN /\ GenSettle(GenSuccess(parsed.data))
                    /\ UNCHANGED genCalls
               ELSE /\ genCalls' = Append(genCalls, Prompt("simple", genRequest))
                    /\ genPc' = "awaitRetry"
                    /\ UNCHANGED genOutcome

\* The retry's generateContent settles: the retry's quiz when it parses and
\* has a questions array, else the retry's catch, rethrown by the outer one.
GenRetryReply(reply) ==
    /\ genPc = "awaitRetry"
    /\ genReplies' = Append(genReplies, reply)
    /\ UNCHANGED <<genRequest, genCalls>>
    /\ UNCHANGED <<gameVars, navVars, ddVars, fnVars, clVars, tiVars, fxVars>>
    /\ LET parsed == ParseReply(reply)
       IN IF reply.kind = "text" /\ parsed.ok /\ HasQuestionsArray(parsed.data)
          THEN GenSettle(GenSuccess(parsed.data))
          ELSE GenSettle(GenFailure(
                 "Failed to generate quiz questions: Failed to parse quiz questions from AI response after retry"))

\* ------------------------------------------------ the generate-quiz handler

HttpMethods == {"OPTIONS", "GET", "POST"}

\* event.body: whether JSON.parse accepts it, and the fields it then has
\* ("" and 0 for an absent field).
Bodies ==
    [parses : BOOLEAN, topic : {"", "Software Testing"},
     difficulty : {"", "easy", "hard"}, numQuestions : {0, 5}]

Events == [httpMethod : HttpMethods, body : Bodies]

Environments == [GEMINI_API_KEY : {"", "key"}]

FnReturn(statusCode, errorText, data) ==
    /\ fnPc' = "done"
    /\ fnResult' = [statusCode |-> statusCode, error |-> errorText, data |-> data]

\* Mutant of FnInvoke: the body is parsed and the topic checked before the
\* API key is read.
FnInvokeBodyFirst(event, env) ==
    /\ fnPc = "idle"
    /\ fnName' = "generate-quiz"
    /\ fnEvent' = event
    /\ fnEnv' = env
    /\ UNCHANGED fnReplies
    /\ UNCHANGED <<gameVars, navVars, ddVars, genVars, clVars, tiVars, fxVars>>
    /\ IF event.httpMethod = "OPTIONS"
       THEN FnReturn(200, "", NoQuestionsField) /\ UNCHANGED fnCalls
       ELSE IF event.httpMethod # "POST"
       THEN FnReturn(405, "Method Not Allowed", NoQuestionsField) /\ UNCHANGED fnCalls
       ELSE IF ~event.body.parses
       THEN FnReturn(500, "Failed to generate quiz: body", NoQuestionsField)
            /\ UNCHANGED fnCalls
       ELSE IF event.body.topic = ""
       THEN FnReturn(400, "Topic is required", NoQuestionsField) /\ UNCHANGED fnCalls
       ELSE IF env.GEMINI_API_KEY = ""
       THEN FnReturn(500, "Server configuration error: API key not found",
                     NoQuestionsField) /\ UNCHANGED fnCalls
       ELSE /\ fnCalls' = <<Prompt("full", WithDefaults(event.body))>>
            /\ fnPc' = "awaitProvider"
            /\ UNCHANGED fnResult

\* exports.handler up to its first await.
FnInvoke(event, env) ==
    /\ fnPc = "idle"
    /\ fnName' = "generate-quiz"
    /\ fnEvent' = event
    /\ fnEnv' = env
    /\ UNCHANGED fnReplies
    /\ UNCHANGED <<gameVars, navVars, ddVars, genVars, clVars, tiVars, fxVars>>
    /\ IF event.httpMethod = "OPTIONS"
       THEN FnReturn(200, "", NoQuestionsField) /\ UNCHANGED fnCalls
       ELSE IF event.httpMethod # "POST"
       THEN FnReturn(405, "Method Not Allowed", NoQuestionsField) /\ UNCHANGED fnCalls
       ELSE IF env.GEMINI_API_KEY = ""
       THEN FnReturn(500, "Server configuration error: API key not found",
                     NoQuestionsField) /\ UNCHANGED fnCalls
       ELSE IF ~event.body.parses
       THEN FnReturn(500, "Failed to generate quiz: body", NoQuestionsField)
            /\ UNCHANGED fnCalls
       ELSE IF event.body.topic = ""
       THEN FnReturn(400, "Topic is required", NoQuestionsField) /\ UNCHANGED fnCalls
       ELSE /\ fnCalls' = <<Prompt("full", WithDefaults(event.body))>>
            /\ fnPc' = "awaitProvider"
            /\ UNCHANGED fnResult

\* generateContent settles: the validated quiz with 200, or the catch.
FnReply(reply) ==
    /\ fnPc = "awaitProvider"
    /\ fnName = "generate-quiz"
    /\ fnReplies' = Append(fnReplies, reply)
    /\ UNCHANGED <<fnName, fnEvent, fnEnv, fnCalls>>
    /\ UNCHANGED <<gameVars, navVars, ddVars, genVars, clVars, tiVars, fxVars>>
    /\ LET parsed == ParseReply(reply)
       IN IF reply.kind = "text" /\ parsed.ok /\ ValidQuiz(parsed.data)
          THEN FnReturn(200, "", parsed.data)
          ELSE FnReturn(500, "Failed to generate quiz: provider or parse or validation",
                        NoQuestionsField)

\* ------------------------------------------------ the generate-hint handler

\* event.body of a generate-hint request: whether JSON.parse accepts it, and
\* the fields it then has ("" for an absent field).
HintBodies ==
    [parses : BOOLEAN, question : {"", "Q"}, userAnswer : {"", "incorrect"}]

HintEvents == [httpMethod : HttpMethods, body : HintBodies]

\* What model.generateContent may come to for a hint: it throws, or it
\* gives a text; text is response.text().trim().
HintProviderReplies ==
    {[kind |-> "error", text |-> ""]} \cup [kind : {"text"}, text : {"", "a hint"}]

HintFnReturn(statusCode, errorText, hint) ==
    /\ fnPc' = "done"
    /\ fnResult' = [statusCode |-> statusCode, error |-> errorText, hint |-> hint]

\* Mutant of HintFnInvoke: the API key is read before the method gate.
HintFnInvokeKeyFirst(event, env) ==
    /\ fnPc = "idle"
    /\ fnName' = "generate-hint"
    /\ fnEvent' = event
    /\ fnEnv' = env
    /\ UNCHANGED fnReplies
    /\ UNCHANGED <<gameVars, navVars, ddVars, genVars, clVars, tiVars, fxVars>>
    /\ IF env.GEMINI_API_KEY = ""
       THEN HintFnReturn(500, "Server configuration error: API key not found", "")
            /\ UNCHANGED fnCalls
       ELSE IF event.httpMethod = "OPTIONS"
       THEN HintFnReturn(200, "", "") /\ UNCHANGED fnCalls
       ELSE IF event.httpMethod # "POST"
       THEN HintFnReturn(405, "Method Not Allowed", "") /\ UNCHANGED fnCalls
       ELSE IF ~event.body.parses
       THEN HintFnReturn(500, "", FallbackHint) /\ UNCHANGED fnCalls
       ELSE IF event.body.question = "" \/ event.body.userAnswer = ""
       THEN HintFnReturn(400, "Question and userAnswer are required", "")
            /\ UNCHANGED fnCalls
       ELSE /\ fnCalls' = <<[variant |-> "hint", question |-> event.body.question,
                             userAnswer |-> event.body.userAnswer]>>
            /\ fnPc' = "awaitProvider"
            /\ UNCHANGED fnResult

\* exports.handler of generate-hint up to its first await.
HintFnInvoke(event, env) ==
    /\ fnPc = "idle"
    /\ fnName' = "generate-hint"
    /\ fnEvent' = event
    /\ fnEnv' = env
    /\ UNCHANGED fnReplies
    /\ UNCHANGED <<gameVars, navVars, ddVars, genVars, clVars, tiVars, fxVars>>
    /\ IF event.httpMethod = "OPTIONS"
       THEN HintFnReturn(200, "", "") /\ UNCHANGED fnCalls
       ELSE IF event.httpMethod # "POST"
       THEN HintFnReturn(405, "Method Not Allowed", "") /\ UNCHANGED fnCalls
       ELSE IF env.GEMINI_API_KEY = ""
       THEN HintFnReturn(500, "Server configuration error: API key not found", "")
            /\ UNCHANGED fnCalls
       ELSE IF ~event.body.parses
       THEN HintFnReturn(500, "", FallbackHint) /\ UNCHANGED fnCalls
       ELSE IF event.body.question = "" \/ event.body.userAnswer = ""
       THEN HintFnReturn(400, "Question and userAnswer are required", "")
            /\ UNCHANGED fnCalls
       ELSE /\ fnCalls' = <<[variant |-> "hint", question |-> event.body.question,
                             userAnswer |-> event.body.userAnswer]>>
            /\ fnPc' = "awaitProvider"
            /\ UNCHANGED fnResult

\* generateContent settles: the trimmed text with 200, or the catch's
\* fallback hint with 500.
HintFnReply(reply) ==
    /\ fnPc = "awaitProvider"
    /\ fnName = "generate-hint"
    /\ fnReplies' = Append(fnReplies, reply)
    /\ UNCHANGED <<fnName, fnEvent, fnEnv, fnCalls>>
    /\ UNCHANGED <<gameVars, navVars, ddVars, genVars, clVars, tiVars, fxVars>>
    /\ IF reply.kind = "text"
       THEN HintFnReturn(200, "", reply.text)
       ELSE HintFnReturn(500, "", FallbackHint)

\* ------------------------------------- the client service (geminiService.ts)

\* What a fetch may come to: it rejects, or it gives a response with a
\* status, a body that response.json() accepts or not, and the body's error
\* and quiz fields.
NetworkError ==
    [kind |-> "networkError", status |-> 0, bodyParses |-> FALSE, error |-> "",
     data |-> NoQuestionsField]

\* The response fetch makes of a handler's return value; the empty body of
\* the pre-flight answer is not JSON.
ResponseOf(result) ==
    [kind       |-> "response",
     status     |-> result.statusCode,
     bodyParses |-> ~(result.error = "" /\ result.data = NoQuestionsField),
     error      |-> result.error,
     data       |-> result.data]

\* Answers given in the handler's place: a gateway's HTML page, and a JSON
\* body without an error field.
GatewayResponses ==
    [kind : {"response"}, status : {502}, bodyParses : BOOLEAN, error : {""},
     data : {NoQuestionsField}]

\* response.ok
ResponseOk(response) == response.status \in 200..299

\* The Error the catch of generateQuizQuestions throws: its prefix and the
\* message of the error caught.
ClientFailure(detail) ==
    [status  |-> "error",
     message |-> <<"Failed to generate quiz questions: ", detail>>,
     data    |-> NoQuestionsField]

\* Mutant of ClientQuiz: response.ok is not tested.
ClientQuizIgnoresStatus(response) ==
    IF response.kind = "networkError"
    THEN ClientFailure("fetch failed")
    ELSE IF ~response.bodyParses
    THEN ClientFailure("invalid json")
    ELSE [status |-> "ok", message |-> "", data |-> response.data]

\* generateQuizQuestions (client) from the settling of its fetch on.
ClientQuiz(response) ==
    IF response.kind = "networkError"
    THEN ClientFailure("fetch failed")
    ELSE IF ~ResponseOk(response)
    THEN ClientFailure(IF ~response.bodyParses THEN "Unknown error"
                       ELSE IF response.error # "" THEN response.error
                       ELSE "HTTP status")
    ELSE IF ~response.bodyParses
    THEN ClientFailure("invalid json")
    ELSE [status |-> "ok", message |-> "", data |-> response.data]

\* The arguments of generateHint: the question's text and the user's answer
\* as a text.
HintArguments ==
    [question : {"Q1", "Q2", "Q3", "Q4"},
     userAnswer : {"incorrect", "unanswered", "correct", "Paris"}]

\* generateHint is called: the fetch is sent.
HintCall(args) ==
    /\ hcPc = "idle"
    /\ hcArgs' = args
    /\ hcPc' = "fetching"
    /\ UNCHANGED <<cqResponse, cqOutcome, hcReply, hcOutcome>>
    /\ UNCHANGED <<gameVars, navVars, ddVars, genVars, fnVars, tiVars, fxVars>>

\* The fetch of generateHint settles and the call with it.
HintFetchSettles(reply) ==
    /\ hcPc = "fetching"
    /\ hcReply' = reply
    /\ hcOutcome' = HintPromise(reply)
    /\ hcPc' = "done"
    /\ UNCHANGED <<cqResponse, cqOutcome, hcArgs>>
    /\ UNCHANGED <<gameVars, navVars, ddVars, genVars, fnVars, tiVars, fxVars>>

\* What the fetch of generateQuizQuestions can come to now: the handler's
\* answer to a POST once it has answered, a gateway's answer, or nothing.
QuizResponses ==
    {NetworkError} \cup GatewayResponses
    \cup (IF fnPc = "done" /\ fnName = "generate-quiz" /\ fnEvent.httpMethod = "POST"
          THEN {ResponseOf(fnResult)} ELSE {})

\* The fetch of generateQuizQuestions settles and the call with it.
ClientQuizSettles(response) ==
    /\ cqOutcome = <<>>
    /\ response \in QuizResponses
    /\ cqResponse' = response
    /\ cqOutcome' = ClientQuiz(response)
    /\ UNCHANGED <<hcPc, hcArgs, hcReply, hcOutcome>>
    /\ UNCHANGED <<gameVars, navVars, ddVars, genVars, fnVars, tiVars, fxVars>>

\* -------------------------------------------------------------- TopicInput

\* The texts the topic input may hold: empty, blank, and a topic without
\* and with surrounding blanks.
Topics == {"", "  ", "World History", " World History "}

\* topic.trim()
Trim(t) ==
    IF t = "  " THEN ""
    ELSE IF t = " World History " THEN "World History"
    ELSE t

\* The responses the fetch of a submitted request may come to: none, the
\* handler's 200 with a quiz, the handler's 500.
TopicResponses ==
    {NetworkError,
     ResponseOf([statusCode |-> 200, error |-> "",
                 data |-> [hasQuestions |-> TRUE, isArray |-> TRUE,
                           questions |-> <<WellFormedQuestion>>]]),
     ResponseOf([statusCode |-> 500,
                 error |-> "Failed to generate quiz: provider or parse or validation",
                 data |-> NoQuestionsField])}

\* The state of a TopicInput instance that is not, or not yet, on screen.
TopicUnmounted ==
    /\ topic' = ""
    /\ difficulty' = "medium"
    /\ isGenerating' = FALSE
    /\ topicError' = {}

\* onChange of the input, the clear button, a suggested topic.
SetTopic(t) ==
    /\ route = "/topic"
    /\ ~isGenerating
    /\ topic' = t
    /\ lastEvent' = [op |-> "setTopic", ignored |-> t = topic]
    /\ UNCHANGED <<difficulty, isGenerating, topicError, tiInstance, submits, quizNav>>
    /\ UNCHANGED <<gameVars, route, resultsNav, ddVars, genVars, fnVars, clVars, fxVars>>

\* The three difficulty buttons.
SetDifficulty(d) ==
    /\ route = "/topic"
    /\ ~isGenerating
    /\ difficulty' = d
    /\ lastEvent' = [op |-> "setDifficulty", ignored |-> d = difficulty]
    /\ UNCHANGED <<topic, isGenerating, topicError, tiInstance, submits, quizNav>>
    /\ UNCHANGED <<gameVars, route, resultsNav, ddVars, genVars, fnVars, clVars, fxVars>>

\* Mutant of HandleSubmit: setError(null) is left out.
HandleSubmitKeepsError ==
    /\ route = "/topic"
    /\ ~isGenerating
    /\ IF Trim(topic) = ""
       THEN /\ lastEvent' = [op |-> "handleSubmit", ignored |-> TRUE]
            /\ UNCHANGED <<isGenerating, topicError, submits>>
       ELSE /\ isGenerating' = TRUE
            /\ UNCHANGED topicError
            /\ submits' = Append(submits, [instance   |-> tiInstance,
                                           topic      |-> Trim(topic),
                                           difficulty |-> difficulty])
            /\ lastEvent' = [op |-> "handleSubmit", ignored |-> FALSE]
    /\ UNCHANGED <<topic, difficulty, tiInstance, quizNav>>
    /\ UNCHANGED <<gameVars, route, resultsNav, ddVars, genVars, fnVars, clVars, fxVars>>

\* Mutant of HandleSubmit: the form can be submitted while a request is
\* pending.
HandleSubmitWhileGenerating ==
    /\ route = "/topic"
    /\ IF Trim(topic) = ""
       THEN /\ lastEvent' = [op |-> "handleSubmit", ignored |-> TRUE]
            /\ UNCHANGED <<isGenerating, topicError, submits>>
       ELSE /\ isGenerating' = TRUE
            /\ topicError' = {}
            /\ submits' = Append(submits, [instance   |-> tiInstance,
                                           topic      |-> Trim(topic),
                                           difficulty |-> difficulty])
            /\ lastEvent' = [op |-> "handleSubmit", ignored |-> FALSE]
    /\ UNCHANGED <<topic, difficulty, tiInstance, quizNav>>
    /\ UNCHANGED <<gameVars, route, resultsNav, ddVars, genVars, fnVars, clVars, fxVars>>

\* handleSubmit up to its await; the form is on screen only while
\* isGenerating is false.
HandleSubmit ==
    /\ route = "/topic"
    /\ ~isGenerating
    /\ IF Trim(topic) = ""
       THEN /\ lastEvent' = [op |-> "handleSubmit", ignored |-> TRUE]
            /\ UNCHANGED <<isGenerating, topicError, submits>>
       ELSE /\ isGenerating' = TRUE
            /\ topicError' = {}
            /\ submits' = Append(submits, [instance   |-> tiInstance,
                                           topic      |-> Trim(topic),
                                           difficulty |-> difficulty])
            /\ lastEvent' = [op |-> "handleSubmit", ignored |-> FALSE]
    /\ UNCHANGED <<topic, difficulty, tiInstance, quizNav>>
    /\ UNCHANGED <<gameVars, route, resultsNav, ddVars, genVars, fnVars, clVars, fxVars>>

RemoveAt(seq, k) == [j \in 1..(Len(seq) - 1) |-> IF j < k THEN seq[j] ELSE seq[j + 1]]

\* The awaited generateQuizQuestions of a handleSubmit call settles:
\* navigate("/quiz") when it resolved, the catch when it rejected. The state
\* setters of an instance that is no longer on screen do nothing.
SubmitSettles(k, response) ==
    /\ k \in 1..Len(submits)
    /\ LET s == submits[k]
           outcome == ClientQuiz(response)
           live == route = "/topic" /\ s.instance = tiInstance
       IN /\ submits' = RemoveAt(submits, k)
          /\ IF outcome.status = "ok"
             THEN /\ route' = "/quiz"
                  /\ quizNav' = Append(quizNav, [topic      |-> s.topic,
                                                 difficulty |-> s.difficulty,
                                                 questions  |-> outcome.data.questions])
                  /\ TopicUnmounted
             ELSE /\ UNCHANGED <<route, quizNav, topic, difficulty>>
                  /\ IF live
                     THEN /\ topicError' = {outcome.message}
                          /\ isGenerating' = FALSE
                     ELSE UNCHANGED <<topicError, isGenerating>>
          /\ lastEvent' = [op      |-> IF live THEN "quizResponse" ELSE "lateQuizResponse",
                           ignored |-> outcome.status # "ok" /\ ~live]
    /\ UNCHANGED tiInstance
    /\ UNCHANGED <<gameVars, resultsNav, ddVars, genVars, fnVars, clVars, fxVars>>

\* The user leaves the topic screen: the browser's Back, or Back to Home.
LeaveTopic ==
    /\ route = "/topic"
    /\ route' = "/"
    /\ TopicUnmounted
    /\ lastEvent' = [op |-> "leaveTopic", ignored |-> FALSE]
    /\ UNCHANGED <<tiInstance, submits, quizNav>>
    /\ UNCHANGED <<gameVars, resultsNav, ddVars, genVars, fnVars, clVars, fxVars>>

\* The /topic route is entered again: a new TopicInput instance.
OpenTopic ==
    /\ route # "/topic"
    /\ tiInstance < MaxMounts
    /\ route' = "/topic"
    /\ tiInstance' = tiInstance + 1
    /\ TopicUnmounted
    /\ lastEvent' = [op |-> "openTopic", ignored |-> FALSE]
    /\ UNCHANGED <<submits, quizNav>>
    /\ UNCHANGED <<gameVars, resultsNav, ddVars, genVars, fnVars, clVars, fxVars>>

\* ------------------------------------------------------------------- idle

GenIdle ==
    /\ genPc = "idle"
    /\ genRequest = <<>>
    /\ genCalls = <<>>
    /\ genReplies = <<>>
    /\ genOutcome = <<>>

FnIdle ==
    /\ fnPc = "idle"
    /\ fnName = ""
    /\ fnEvent = <<>>
    /\ fnEnv = <<>>
    /\ fnCalls = <<>>
    /\ fnReplies = <<>>
    /\ fnResult = <<>>

\* No function has been applied.
FxIdle ==
    /\ fxInput = <<>>
    /\ fxOutput = <<>>

ClientIdle ==
    /\ cqResponse = <<>>
    /\ cqOutcome = <<>>
    /\ hcPc = "idle"
    /\ hcArgs = <<>>
    /\ hcReply = <<>>
    /\ hcOutcome = <<>>

\* No TopicInput instance has been mounted.
TopicIdle ==
    /\ topic = ""
    /\ difficulty = "medium"
    /\ isGenerating = FALSE
    /\ topicError = {}
    /\ tiInstance = 0
    /\ submits = <<>>
    /\ quizNav = <<>>

DeepDiveIdle ==
    /\ missed = <<>>
    /\ hints = <<>>
    /\ loadingIds = <<>>
    /\ error = {}
    /\ hintLoop = 0
    /\ hintRequests = <<>>

\* QuizGame after its first render and effects.
InitGame ==
    /\ \E n \in 1..MaxQuestions : questions \in [0..(n - 1) -> Question]
    /\ currentQuestionIndex = 0
    /\ selectedAnswer = {}
    /\ showResult = FALSE
    /\ score = 0
    /\ timeLeft = TimeBudget(questions[0])
    /\ answeredQuestions = [i \in DOMAIN questions |-> FALSE]
    /\ userAnswers = [i \in DOMAIN questions |-> -1]
    /\ advanceTimers = <<>>
    /\ elapsed = 0

Init ==
    /\ InitGame
    /\ route = "/quiz"
    /\ resultsNav = <<>>
    /\ lastEvent = [op |-> "mount", ignored |-> FALSE]
    /\ DeepDiveIdle
    /\ GenIdle
    /\ FnIdle
    /\ ClientIdle
    /\ TopicIdle
    /\ FxIdle

Next ==
    \/ Tick
    \/ \E index \in 0..(NumOptions - 1) : Click(index)
    \/ AdvanceNext
    \/ AdvanceComplete
    \/ ExitQuiz
    \/ OpenDeepDive
    \/ \E reply \in HintReplies : HintSettles(reply)

Spec == Init /\ [][Next]_vars

\* The five built-in questions QuizGame plays when location.state carries no
\* question.
BuiltInQuestions ==
    [i \in 0..4 |-> [correctAnswer |-> <<0, 2, 0, 2, 1>>[i + 1],
                     timeLimit     |-> DefaultTimeLimit]]

\* location.state?.questions || [] : the lists navigate("/quiz") may carry,
\* the empty one included.
AiQuestionLists ==
    UNION {[1..n -> Question] : n \in 0..MaxQuestions}

\* Mutant of InitialQuestions: the AI list is played as it is, empty or not.
InitialQuestionsNoFallback(aiQuestions) ==
    [i \in 0..(Len(aiQuestions) - 1) |-> aiQuestions[i + 1]]

\* useState(aiQuestions.length > 0 ? aiQuestions : [built-in questions])
InitialQuestions(aiQuestions) ==
    IF Len(aiQuestions) > 0
    THEN [i \in 0..(Len(aiQuestions) - 1) |-> aiQuestions[i + 1]]
    ELSE BuiltInQuestions

\* QuizGame mounted on a location.state with any question list, the empty
\* one included.
InitPlay ==
    /\ \E aiQuestions \in AiQuestionLists :
          /\ quizNav = <<[topic      |-> "World History",
                          difficulty |-> "medium",
                          questions  |-> aiQuestions]>>
          /\ questions = InitialQuestions(aiQuestions)
    /\ currentQuestionIndex = 0
    /\ selectedAnswer = {}
    /\ showResult = FALSE
    /\ score = 0
    /\ timeLeft = IF 0 \in DOMAIN questions
                  THEN TimeBudget(questions[0])
                  ELSE DefaultTimeLimit
    /\ answeredQuestions = [i \in DOMAIN questions |-> FALSE]
    /\ userAnswers = [i \in DOMAIN questions |-> -1]
    /\ advanceTimers = <<>>
    /\ elapsed = 0
    /\ route = "/quiz"
    /\ resultsNav = <<>>
    /\ lastEvent = [op |-> "mount", ignored |-> FALSE]
    /\ DeepDiveIdle
    /\ GenIdle
    /\ FnIdle
    /\ ClientIdle
    /\ topic = ""
    /\ difficulty = "medium"
    /\ isGenerating = FALSE
    /\ topicError = {}
    /\ tiInstance = 1
    /\ submits = <<>>
    /\ FxIdle

NextPlay ==
    \/ Tick
    \/ \E index \in 0..(NumOptions - 1) : Click(index)
    \/ AdvanceNext
    \/ AdvanceComplete
    \/ ExitQuiz

SpecPlay == InitPlay /\ [][NextPlay]_vars

\* The timeLimit values a question may carry: nothing between the provider's
\* reply and QuizGame reads or checks the field, so any number passes;
\* 0 stands for an absent one, -1 for the negative ones.
LiveTimeLimits == {0, MaxTimeLimit, -1}

\* A play session on AI questions with any timeLimit.
InitLive ==
    /\ \E n \in 1..MaxQuestions :
          questions \in [0..(n - 1) -> [correctAnswer : {1}, timeLimit : LiveTimeLimits]]
    /\ currentQuestionIndex = 0
    /\ selectedAnswer = {}
    /\ showResult = FALSE
    /\ score = 0
    /\ timeLeft = TimeBudget(questions[0])
    /\ answeredQuestions = [i \in DOMAIN questions |-> FALSE]
    /\ userAnswers = [i \in DOMAIN questions |-> -1]
    /\ advanceTimers = <<>>
    /\ elapsed = 0
    /\ route = "/quiz"
    /\ resultsNav = <<>>
    /\ lastEvent = [op |-> "mount", ignored |-> FALSE]
    /\ DeepDiveIdle
    /\ GenIdle
    /\ FnIdle
    /\ ClientIdle
    /\ TopicIdle
    /\ FxIdle

\* The session is not exited: the timers and the player's clicks.
NextLive ==
    \/ Tick
    \/ \E index \in 0..(NumOptions - 1) : Click(index)
    \/ AdvanceNext
    \/ AdvanceComplete

\* An armed timer fires: the one-second countdown and the 3000 ms
\* auto-advance are setTimeout callbacks of the browser's event loop. The
\* player's clicks are under no fairness.
SpecLive ==
    /\ InitLive
    /\ [][NextLive]_vars
    /\ WF_vars(Tick)
    /\ WF_vars(AdvanceNext)
    /\ WF_vars(AdvanceComplete)

\* No play session: the topic screen.
GameIdle ==
    /\ questions = <<>>
    /\ currentQuestionIndex = 0
    /\ selectedAnswer = {}
    /\ showResult = FALSE
    /\ score = 0
    /\ timeLeft = 0
    /\ answeredQuestions = <<>>
    /\ userAnswers = <<>>
    /\ advanceTimers = <<>>
    /\ elapsed = 0
    /\ route = "/topic"
    /\ resultsNav = <<>>
    /\ lastEvent = [op |-> "mount", ignored |-> FALSE]

InitGen == GameIdle /\ DeepDiveIdle /\ GenIdle /\ FnIdle /\ FxIdle /\ ClientIdle /\ TopicIdle

NextGen ==
    \/ \E args \in GenArguments : GenCall(args)
    \/ \E reply \in ProviderReplies : GenFirstReply(reply)
    \/ \E reply \in ProviderReplies : GenRetryReply(reply)

SpecGen == InitGen /\ [][NextGen]_vars

InitFn == GameIdle /\ DeepDiveIdle /\ GenIdle /\ FnIdle /\ FxIdle /\ ClientIdle /\ TopicIdle

NextFn ==
    \/ \E event \in Events, env \in Environments : FnInvoke(event, env)
    \/ \E reply \in ProviderReplies : FnReply(reply)
    \/ \E response \in QuizResponses : ClientQuizSettles(response)

SpecFn == InitFn /\ [][NextFn]_vars

\* One generation request, through the direct-provider function or through
\* the handler.
InitNorm == GameIdle /\ DeepDiveIdle /\ GenIdle /\ FnIdle /\ FxIdle /\ ClientIdle /\ TopicIdle

NextNorm ==
    \/ fnPc = "idle" /\ NextGen
    \/ genPc = "idle" /\ \E event \in Events, env \in Environments : FnInvoke(event, env)
    \/ genPc = "idle" /\ \E reply \in ProviderReplies : FnReply(reply)

SpecNorm == InitNorm /\ [][NextNorm]_vars

\* One request to either of the two functions.
InitHandlers == GameIdle /\ DeepDiveIdle /\ GenIdle /\ FnIdle /\ FxIdle /\ ClientIdle /\ TopicIdle

NextHandlers ==
    \/ \E event \in Events, env \in Environments : FnInvoke(event, env)
    \/ \E reply \in ProviderReplies : FnReply(reply)
    \/ \E event \in HintEvents, env \in Environments : HintFnInvoke(event, env)
    \/ \E reply \in HintProviderReplies : HintFnReply(reply)

SpecHandlers == InitHandlers /\ [][NextHandlers]_vars

\* One call of the client generateHint.
InitHint == GameIdle /\ DeepDiveIdle /\ GenIdle /\ FnIdle /\ FxIdle /\ ClientIdle /\ TopicIdle

NextHint ==
    \/ \E args \in HintArguments : HintCall(args)
    \/ \E reply \in HintReplies : HintFetchSettles(reply)

SpecHint == InitHint /\ [][NextHint]_vars

\* The topic screen, just mounted; the topic may be prefilled from
\* location.state.
InitTopic ==
    /\ GameIdle /\ DeepDiveIdle /\ GenIdle /\ FnIdle /\ FxIdle /\ ClientIdle
    /\ topic \in {"", "World History"}
    /\ difficulty = "medium"
    /\ isGenerating = FALSE
    /\ topicError = {}
    /\ tiInstance = 1
    /\ submits = <<>>
    /\ quizNav = <<>>

NextTopic ==
    \/ \E t \in Topics : SetTopic(t)
    \/ \E d \in Difficulties : SetDifficulty(d)
    \/ HandleSubmit
    \/ \E k \in 1..MaxMounts, response \in TopicResponses : SubmitSettles(k, response)
    \/ LeaveTopic
    \/ OpenTopic

SpecTopic == InitTopic /\ [][NextTopic]_vars

\* The response cleanup on one text.
InitWrap ==
    GameIdle /\ DeepDiveIdle /\ GenIdle /\ FnIdle /\ FxIdle /\ ClientIdle /\ TopicIdle

NextWrap == \E leading \in Wraps, trailing \in Wraps : ApplyCleanup(leading, trailing)

SpecWrap == InitWrap /\ [][NextWrap]_vars

\* One call of getTopicSpecificInstructions.
InitInstr ==
    GameIdle /\ DeepDiveIdle /\ GenIdle /\ FnIdle /\ FxIdle /\ ClientIdle /\ TopicIdle

NextInstr ==
    \E text \in TopicTexts, level \in {"easy", "medium", "hard"} :
        ApplyInstructions(text, level)

SpecInstr == InitInstr /\ [][NextInstr]_vars

\* ================================================================== claims

\* The current question is waiting for its answer.
AwaitingAnswer == ~showResult /\ ~answeredQuestions[currentQuestionIndex]

\* Question i ended by timeout: the sentinel is its recorded answer.
TimedOut(i) == answeredQuestions[i] /\ userAnswers[i] = NoAnswer

\* Question i was answered with a wrong option.
AnsweredWrong(i) ==
    /\ answeredQuestions[i]
    /\ userAnswers[i] \in 0..(NumOptions - 1)
    /\ userAnswers[i] # questions[i].correctAnswer

\* C1: the countdown a question is judged by is its own: while it waits for
\* its answer, the time left and the ticks it has seen add up to its own
\* budget, and a timeout is on record for the current question only once
\* the ticks it has seen equal its budget.
C1_TimeoutAfterOwnBudget ==
    LET budget == TimeBudget(questions[currentQuestionIndex])
    IN /\ AwaitingAnswer => timeLeft + elapsed = budget
       /\ (showResult /\ selectedAnswer = {NoAnswer}) => elapsed = budget

\* C2: in every result emitted, a question that ended by timeout has the
\* outcome "unanswered", wherever it stands in the quiz.
C2_TimeoutIsUnanswered ==
    \A n \in 1..Len(resultsNav) :
        \A k \in 1..Len(resultsNav[n].questions) :
            TimedOut(k - 1) => resultsNav[n].questions[k].userAnswer = "unanswered"

\* C3: navigate("/results") happens at most once, only when all N answers
\* are on record, it has happened once the last auto-advance has fired, and
\* the score it carries is the number of questions whose recorded answer is
\* their correctAnswer.
C3_CompletesOnceWithScore ==
    /\ Len(resultsNav) <= 1
    /\ (resultsNav # <<>>) =>
          /\ \A i \in DOMAIN questions : answeredQuestions[i]
          /\ resultsNav[1].score =
               Cardinality({i \in DOMAIN questions :
                               userAnswers[i] = questions[i].correctAnswer})
    /\ ((\A i \in DOMAIN questions : answeredQuestions[i]) /\ advanceTimers = <<>>)
          => Len(resultsNav) = 1

\* A completed session in which a click scored and a timeout did not.
C3_Witness ==
    /\ Len(resultsNav) = 1
    /\ resultsNav[1].score = 1
    /\ NumQuestions = 2
    /\ \E i \in DOMAIN questions : TimedOut(i)

\* C4: a call of handleAnswerSelect while the current question is answered
\* or its result is shown changes none of score, userAnswers,
\* answeredQuestions, selectedAnswer, currentQuestionIndex, and schedules no
\* auto-advance.
C4_SelectLockedIsNoOp ==
    [][(/\ lastEvent'.op = "handleAnswerSelect"
        /\ (answeredQuestions[currentQuestionIndex] \/ showResult))
       => UNCHANGED <<score, userAnswers, answeredQuestions, selectedAnswer,
                      currentQuestionIndex, advanceTimers>>]_vars

\* A selection arrived while a result was shown and was ignored.
C4_Witness ==
    /\ lastEvent = [op |-> "handleAnswerSelect", ignored |-> TRUE]
    /\ showResult
    /\ advanceTimers # <<>>

\* C5: a step that records the sentinel for a question leaves the score
\* unchanged, whatever correctAnswer the question carries.
C5_TimeoutNeverScores ==
    [][(\E i \in DOMAIN questions :
           /\ ~answeredQuestions[i]
           /\ answeredQuestions'[i]
           /\ userAnswers'[i] = NoAnswer)
       => score' = score]_vars

\* C6: the missed set handed to Deep Dive is exactly the questions answered
\* with a wrong option, in original order, and no hint is requested for a
\* question that ended by timeout.
C6_MissedIsWrongOptionsOnly ==
    route = "/deep-dive" =>
        /\ \A k \in 1..Len(missed) : AnsweredWrong(missed[k].id)
        /\ \A i \in DOMAIN questions :
              AnsweredWrong(i) => \E k \in 1..Len(missed) : missed[k].id = i
        /\ \A j, k \in 1..Len(missed) : j < k => missed[j].id < missed[k].id
        /\ \A r \in 1..Len(hintRequests) : ~TimedOut(hintRequests[r].id)

\* C7: for every result emitted the three counts of ResultsPage add up to
\* totalQuestions, which is the length of the outcome list and of the quiz.
C7_CountsAddUp ==
    \A n \in 1..Len(resultsNav) :
        LET st == resultsNav[n]
        IN /\ correctAnswers(st) + incorrectAnswers(st) + unansweredQuestions(st)
                = st.totalQuestions
           /\ Len(st.questions) = st.totalQuestions
           /\ st.totalQuestions = NumQuestions

\* A result holding an unanswered and an incorrect question.
C7_Witness ==
    /\ resultsNav # <<>>
    /\ unansweredQuestions(resultsNav[1]) = 1
    /\ incorrectAnswers(resultsNav[1]) = 1

\* C8: the score of every result emitted is the number of its outcomes
\* classified "correct".
C8_ScoreIsCorrectCount ==
    \A n \in 1..Len(resultsNav) :
        resultsNav[n].score = correctAnswers(resultsNav[n])

\* A provider text the full normalisation rejects: no brace pair, a slice
\* that does not parse, no questions array, or a question that has an empty
\* text, other than four options or a correctAnswer outside 0..3.
Unusable(reply) ==
    /\ reply.kind = "text"
    /\ \/ reply.shape # "json"
       \/ ~reply.data.hasQuestions
       \/ ~reply.data.isArray
       \/ \E k \in 1..Len(reply.data.questions) :
             LET q == reply.data.questions[k]
             IN \/ q.question = ""
                \/ q.numOptions # 4
                \/ q.correctAnswer \notin 0..3

\* The retry itself failed: the provider threw, or its text has no brace
\* pair, does not parse, or has no questions array.
RetryFailed(reply) ==
    \/ reply.kind = "error"
    \/ reply.shape # "json"
    \/ ~reply.data.hasQuestions
    \/ ~reply.data.isArray

C10_HandlerRetriesOnce ==
    (fnPc = "done" /\ Len(fnReplies) >= 1 /\ Unusable(fnReplies[1])) =>
        /\ Len(fnCalls) = 2
        /\ fnCalls[2].variant = "simple"

\* C11: every quiz generateQuizQuestions returns, from the first attempt or
\* from the retry, has only questions with a non-empty text, exactly four
\* options and a correctAnswer in 0..3.
C11_ReturnedQuizValidated ==
    (genPc = "done" /\ genOutcome.status = "ok") =>
        \A k \in 1..Len(genOutcome.data.questions) :
            LET q == genOutcome.data.questions[k]
            IN /\ q.question # ""
               /\ q.numOptions = 4
               /\ q.correctAnswer \in 0..3

\* C14: a provider error on the first attempt ends the call with an error
\* after that one provider call; a second provider call is only ever made
\* after a first reply that was a text.
C14_ProviderErrorNotRetried ==
    /\ (Len(genReplies) >= 1 /\ genReplies[1].kind = "error") =>
          /\ genPc = "done"
          /\ genOutcome.status = "error"
          /\ Len(genCalls) = 1
          /\ Len(genReplies) = 1
    /\ (Len(genCalls) = 2) =>
          /\ Len(genReplies) >= 1
          /\ genReplies[1].kind = "text"

\* The provider threw on the first attempt and the call is over, failed,
\* after one provider call.
C14_Witness ==
    /\ genPc = "done"
    /\ Len(genReplies) = 1
    /\ genReplies[1].kind = "error"
    /\ Len(genCalls) = 1
    /\ genOutcome.status = "error"

\* C12: a generation request that succeeds, through the handler or through
\* the direct-provider function, returns exactly as many questions as were
\* asked for.
C12_ExactlyNumQuestions ==
    /\ (fnPc = "done" /\ Len(fnCalls) = 1 /\ fnResult.statusCode = 200) =>
          Len(fnResult.data.questions) = fnCalls[1].numQuestions
    /\ (genPc = "done" /\ genOutcome.status = "ok") =>
          Len(genOutcome.data.questions) = genRequest.numQuestions

\* A provider text that parses to a value whose questions field is missing
\* or is not an array.
MissingQuestions(reply) ==
    /\ reply.kind = "text"
    /\ reply.shape = "json"
    /\ ~(reply.data.hasQuestions /\ reply.data.isArray)

\* C13: a parsed payload without a questions array is rejected: the handler
\* answers it with a non-2xx error response; the direct-provider function
\* does not return it from the first attempt and fails when it is the
\* retry's payload; no successful quiz is without its questions array.
C13_MissingQuestionsRejected ==
    /\ (Len(fnReplies) = 1 /\ MissingQuestions(fnReplies[1])) =>
          /\ fnPc = "done"
          /\ fnResult.statusCode \notin 200..299
          /\ fnResult.error # ""
          /\ fnResult.data = NoQuestionsField
    /\ (Len(genReplies) >= 1 /\ MissingQuestions(genReplies[1])) =>
          /\ Len(genCalls) = 2
          /\ genPc = "done" => Len(genReplies) = 2
    /\ (Len(genReplies) = 2 /\ MissingQuestions(genReplies[2])) =>
          /\ genPc = "done"
          /\ genOutcome.status = "error"
    /\ (genPc = "done" /\ genOutcome.status = "ok") =>
          /\ genOutcome.data.hasQuestions
          /\ genOutcome.data.isArray
    /\ (fnPc = "done" /\ fnResult.statusCode = 200 /\ Len(fnCalls) = 1) =>
          /\ fnResult.data.hasQuestions
          /\ fnResult.data.isArray

\* The retry's payload had a questions field that is not an array, and the
\* call failed.
C13_Witness ==
    /\ genPc = "done"
    /\ Len(genReplies) = 2
    /\ MissingQuestions(genReplies[2])
    /\ genReplies[2].data.hasQuestions
    /\ genOutcome.status = "error"

\* C15: whichever function the request is routed to and whatever the
\* environment holds, an OPTIONS request is answered 200 with an empty
\* body and any other method but POST is answered 405, and no provider
\* call is made for either.
C15_MethodGateFirst ==
    /\ (fnPc # "idle" /\ fnEvent.httpMethod = "OPTIONS") =>
          /\ fnPc = "done"
          /\ fnResult.statusCode = 200
          /\ fnResult.error = ""
          /\ fnName = "generate-quiz" => fnResult.data = NoQuestionsField
          /\ fnName = "generate-hint" => fnResult.hint = ""
          /\ fnCalls = <<>>
    /\ (fnPc # "idle" /\ fnEvent.httpMethod \notin {"POST", "OPTIONS"}) =>
          /\ fnPc = "done"
          /\ fnResult.statusCode = 405
          /\ fnResult.error = "Method Not Allowed"
          /\ fnCalls = <<>>

\* An OPTIONS request to generate-hint, with no API key in the environment,
\* has been answered.
C15_Witness ==
    /\ fnPc = "done"
    /\ fnName = "generate-hint"
    /\ fnEvent.httpMethod = "OPTIONS"
    /\ fnEnv.GEMINI_API_KEY = ""
    /\ fnResult.statusCode = 200

\* C16: a POST to generate-quiz without the API key is answered, whatever
\* its body, with the configuration error and without a provider call; no
\* answer given with the key present carries that error.
C16_MissingKeyIsConfigError ==
    /\ (fnPc # "idle" /\ fnEvent.httpMethod = "POST" /\ fnEnv.GEMINI_API_KEY = "") =>
          /\ fnPc = "done"
          /\ fnResult.statusCode = 500
          /\ fnResult.error = "Server configuration error: API key not found"
          /\ fnCalls = <<>>
    /\ (fnPc = "done" /\ fnEnv.GEMINI_API_KEY # "") =>
          fnResult.error # "Server configuration error: API key not found"

\* A POST whose body does not parse was answered with the configuration
\* error.
C16_Witness ==
    /\ fnPc = "done"
    /\ fnEvent.httpMethod = "POST"
    /\ fnEnv.GEMINI_API_KEY = ""
    /\ ~fnEvent.body.parses
    /\ fnResult.statusCode = 500

\* The payload of a 200 passed validation: it has a questions array and
\* each question has a text, four options and a correctAnswer in 0..3.
PayloadPassedValidation(data) ==
    /\ data.hasQuestions
    /\ data.isArray
    /\ \A k \in 1..Len(data.questions) :
          /\ data.questions[k].question # ""
          /\ data.questions[k].numOptions = 4
          /\ data.questions[k].correctAnswer \in 0..3

\* A POST with a body that parses and has no topic gets a 400 without a
\* provider call once the API key was found.
NoTopicIs400 ==
    (/\ fnPc # "idle"
     /\ fnEvent.httpMethod = "POST"
     /\ fnEnv.GEMINI_API_KEY # ""
     /\ fnEvent.body.parses
     /\ fnEvent.body.topic = "") =>
        /\ fnPc = "done"
        /\ fnResult.statusCode = 400
        /\ fnResult.error # ""
        /\ fnCalls = <<>>

\* The client generateQuizQuestions resolves only on a 2xx response, and
\* rejects on every other response without any quiz data.
ClientThrowsOnNon2xx ==
    (cqOutcome # <<>>) =>
        /\ cqOutcome.status = "ok" =>
              /\ cqResponse.kind = "response"
              /\ cqResponse.status \in 200..299
        /\ (cqResponse.kind = "response" /\ cqResponse.status \notin 200..299) =>
              /\ cqOutcome.status = "error"
              /\ cqOutcome.data = NoQuestionsField

\* C17 as stated: every answer of the generate-quiz handler is a 200 with a
\* payload that passed validation or a non-2xx with an error text; a
\* request with no topic gets a 400 without a provider call; the client
\* never returns quiz data from a non-2xx response.
C17_EveryOutcome ==
    /\ (fnPc = "done") =>
          \/ fnResult.statusCode = 200 /\ PayloadPassedValidation(fnResult.data)
          \/ fnResult.statusCode \notin 200..299 /\ fnResult.error # ""
    /\ NoTopicIs400
    /\ ClientThrowsOnNon2xx

\* C17, amended: every answer of the generate-quiz handler to a request
\* other than the OPTIONS pre-flight is a 200 with a payload that passed
\* validation or a non-2xx with an error text, and the pre-flight is
\* answered 200 with an empty body; a POST with no topic that reached the
\* topic check gets a 400 without a provider call; the client never
\* returns quiz data from a non-2xx response.
C17_EveryOutcomeButPreflight ==
    /\ (fnPc = "done" /\ fnEvent.httpMethod # "OPTIONS") =>
          \/ fnResult.statusCode = 200 /\ PayloadPassedValidation(fnResult.data)
          \/ fnResult.statusCode \notin 200..299 /\ fnResult.error # ""
    /\ (fnPc = "done" /\ fnEvent.httpMethod = "OPTIONS") =>
          /\ fnResult.statusCode = 200
          /\ fnResult.error = ""
          /\ fnResult.data = NoQuestionsField
    /\ NoTopicIs400
    /\ ClientThrowsOnNon2xx

\* The handler answered a POST without a topic with 400, and the client's
\* call was rejected on that response.
C17_Witness ==
    /\ fnPc = "done"
    /\ fnEvent.body.topic = ""
    /\ fnResult.statusCode = 400
    /\ fnCalls = <<>>
    /\ cqOutcome # <<>>
    /\ cqResponse.kind = "response"
    /\ cqResponse.status = 400
    /\ cqOutcome.status = "error"

\* The fetch failed, the response was not 2xx, or the 2xx body had no hint,
\* an empty hint, or was not JSON.
HintFailed(reply) ==
    \/ reply.kind = "networkError"
    \/ ~reply.ok
    \/ reply.hint \in {"", "unparseable"}

\* C18: the client generateHint always fulfils, with a non-empty string;
\* after a network error, a non-2xx response or a 2xx response without a
\* hint the string is the fallback hint, and otherwise it is the hint of
\* the response.
C18_HintNeverFails ==
    (hcPc = "done") =>
        /\ hcOutcome.status = "fulfilled"
        /\ hcOutcome.value # ""
        /\ HintFailed(hcReply) => hcOutcome.value = FallbackHint
        /\ ~HintFailed(hcReply) => hcOutcome.value = hcReply.hint

\* A 2xx response with an empty hint was answered with the fallback hint.
C18_Witness ==
    /\ hcPc = "done"
    /\ hcReply.kind = "response"
    /\ hcReply.ok
    /\ hcReply.hint = ""
    /\ hcOutcome.status = "fulfilled"
    /\ hcOutcome.value = FallbackHint

\* C19: in the Deep Dive review the error state stays null whatever the
\* hint fetches come to; every fetch that has settled left a non-empty hint
\* for its question, and while a missed question is without its hint the
\* request for the next one is in flight.
C19_HintFailureIsSilent ==
    (route = "/deep-dive") =>
        /\ error = {}
        /\ Len(hints) = hintLoop
        /\ \A k \in 1..Len(hints) :
              /\ hints[k].id = missed[k].id
              /\ hints[k].hint # ""
        /\ (hintLoop < Len(missed)) =>
              /\ Len(hintRequests) = hintLoop + 1
              /\ hintRequests[hintLoop + 1].id = missed[hintLoop + 1].id
              /\ loadingIds = <<missed[hintLoop + 1].id>>
        /\ (hintLoop = Len(missed)) =>
              /\ Len(hintRequests) = Len(missed)
              /\ loadingIds = <<>>

\* The first hint fetch failed and the second missed question still got a
\* hint of its own, with no error set.
C19_Witness ==
    /\ route = "/deep-dive"
    /\ Len(missed) = 2
    /\ Len(hints) = 2
    /\ hints[1].hint = FallbackHint
    /\ hints[2].hint = "a hint"
    /\ error = {}

\* C20: a response to a submitted request that settles when the instance
\* that submitted it is no longer on screen changes nothing: no
\* navigate("/quiz") is made.
C20_LateResponseDiscarded ==
    (lastEvent.op = "lateQuizResponse") => lastEvent.ignored

\* The messages of the errors generateQuizQuestions rejects with here.
GenerationFailures ==
    {<<"Failed to generate quiz questions: ", "fetch failed">>,
     <<"Failed to generate quiz questions: ",
       "Failed to generate quiz: provider or parse or validation">>}

\* C21: when the request of the instance on screen fails, the instance
\* leaves the generating state with the error's message as its error, its
\* topic kept, so that the form accepts a submission; a submission that
\* starts a request clears the error; and a success navigates to the quiz
\* from a state that has no error set.
C21_FailureShownThenResubmit ==
    [][/\ (/\ route = "/topic" /\ isGenerating
           /\ route' = "/topic" /\ tiInstance' = tiInstance /\ ~isGenerating') =>
              /\ topicError' \in {{m} : m \in GenerationFailures}
              /\ topic' = topic
              /\ Trim(topic') # ""
              /\ Len(submits') = Len(submits) - 1
       /\ (route = "/topic" /\ ~isGenerating /\ isGenerating') =>
              /\ topicError' = {}
              /\ Len(submits') = Len(submits) + 1
              /\ submits'[Len(submits')].instance = tiInstance
              /\ submits'[Len(submits')].topic = Trim(topic)
       /\ (route = "/topic" /\ isGenerating /\ route' = "/quiz") =>
              /\ topicError = {}
              /\ topicError' = {}
              /\ Len(quizNav') = Len(quizNav) + 1
      ]_vars

\* The request of the instance on screen has failed: the form is back, with
\* the error shown and the topic kept.
C21_Witness ==
    /\ route = "/topic"
    /\ lastEvent.op = "quizResponse"
    /\ ~isGenerating
    /\ topicError # {}
    /\ Trim(topic) # ""

\* C22: the payload normalises to its quiz, and so does the payload with
\* any text before it and any text after it: a fence, prose, or both.
C22_WrappingInsensitive ==
    (fxInput # <<>>) =>
        /\ fxOutput.bare = [ok |-> TRUE, data |-> PayloadData]
        /\ fxOutput.wrapped = fxOutput.bare

\* The topic has a word of the family, in whatever place and letter case.
HasWord(text, family) == \E i \in 1..Len(text) : text[i] \in family

\* What a topic that matches no family gets.
GenericGuidance(level) ==
    IF level = "hard" THEN "FOR TECHNICAL TOPICS (Hard)"
    ELSE "Focus on practical applications and real-world scenarios."

\* What a topic that matches the testing family alone gets, and likewise
\* for the programming and the performance family.
TestingGuidance(level) ==
    CASE level = "hard"   -> "FOR SOFTWARE TESTING (Hard)"
      [] level = "medium" -> "FOR SOFTWARE TESTING (Medium)"
      [] level = "easy"   -> "FOR SOFTWARE TESTING (Easy)"

ProgrammingGuidance(level) ==
    IF level = "hard" THEN "FOR PROGRAMMING (Hard)" ELSE GenericGuidance(level)

PerformanceGuidance(level) ==
    IF level = "hard" THEN "FOR PERFORMANCE TOPICS (Hard)" ELSE GenericGuidance(level)

\* C23: the instructions for a topic are those of the earliest family, in
\* the order testing, programming, performance, that the topic has a word
\* of, wherever the word stands and whatever its letter case; a topic with
\* no such word gets the generic guidance of the difficulty.
C23_FirstFamilyWins ==
    (fxInput # <<>>) =>
        LET text == fxInput.topic
            level == fxInput.difficulty
        IN fxOutput.instructions =
              IF HasWord(text, {"Testing"}) THEN TestingGuidance(level)
              ELSE IF HasWord(text, {"JAVASCRIPT", "programming"})
              THEN ProgrammingGuidance(level)
              ELSE IF HasWord(text, {"Performance", "optimization"})
              THEN PerformanceGuidance(level)
              ELSE GenericGuidance(level)

\* A hard topic with a performance word before a programming word in
\* capitals got the programming guidance.
C23_Witness ==
    /\ fxInput # <<>>
    /\ fxInput.topic = <<"Performance", "JAVASCRIPT">>
    /\ fxInput.difficulty = "hard"
    /\ fxOutput.instructions = "FOR PROGRAMMING (Hard)"

\* C24: a click on option i while the current question c awaits its answer
\* records i for c and shows the result; the score goes up by one when i is
\* c's correctAnswer and stays otherwise; the answers recorded for the other
\* questions, the current index and the time left stay.
C24_SelectRecordsAndScores ==
    [][(Mounted /\ AwaitingAnswer /\ lastEvent'.op = "handleAnswerSelect") =>
          \E i \in 0..3 :
              LET c == currentQuestionIndex
              IN /\ selectedAnswer' = {i}
                 /\ userAnswers'[c] = i
                 /\ answeredQuestions'[c]
                 /\ showResult'
                 /\ score' = IF i = questions[c].correctAnswer THEN score + 1 ELSE score
                 /\ \A j \in DOMAIN questions \ {c} :
                       /\ userAnswers'[j] = userAnswers[j]
                       /\ answeredQuestions'[j] = answeredQuestions[j]
                 /\ currentQuestionIndex' = c
                 /\ timeLeft' = timeLeft
                 /\ Len(advanceTimers') = Len(advanceTimers) + 1
      ]_vars

\* The correct option of the first question was clicked and scored.
C24_Witness ==
    /\ route = "/quiz"
    /\ lastEvent = [op |-> "handleAnswerSelect", ignored |-> FALSE]
    /\ currentQuestionIndex = 0
    /\ showResult
    /\ selectedAnswer = {1}
    /\ questions[0].correctAnswer = 1
    /\ userAnswers[0] = 1
    /\ score = 1

\* C25: once the player has left the quiz with Exit Quiz, no pending
\* auto-advance emits a result or navigates to the results screen.
C25_ExitCancelsAutoAdvance ==
    [][(route = "/") => (route' # "/results" /\ resultsNav' = resultsNav)]_vars

\* The played list is not empty (an empty AI list is replaced by the built-in
\* questions), currentQuestionIndex is inside it, and exactly the questions
\* before it, and perhaps it, have a recorded answer.
IndexInRange ==
    /\ NumQuestions >= 1
    /\ DOMAIN questions = 0..(NumQuestions - 1)
    /\ currentQuestionIndex \in DOMAIN questions
    /\ (quizNav[1].questions = <<>>) => questions = BuiltInQuestions
    /\ (quizNav[1].questions # <<>>) => NumQuestions = Len(quizNav[1].questions)
    /\ \A i \in DOMAIN questions :
          /\ (i < currentQuestionIndex) => answeredQuestions[i]
          /\ (i > currentQuestionIndex) => ~answeredQuestions[i]

\* C26: the played list is never empty, an empty AI list being replaced by
\* the built-in questions; currentQuestionIndex starts at 0, stays inside the
\* list and changes only by +1, through the auto-advance that follows a
\* recorded answer for the current question: no question is skipped or
\* revisited.
C26_IndexWalksPlayedList ==
    /\ currentQuestionIndex = 0
    /\ []IndexInRange
    /\ [][(currentQuestionIndex' # currentQuestionIndex) =>
             /\ currentQuestionIndex' = currentQuestionIndex + 1
             /\ lastEvent'.op = "advance"
             /\ answeredQuestions[currentQuestionIndex]
             /\ showResult
             /\ questions' = questions
         ]_vars

\* The last built-in question is on screen after an empty AI list.
C26_Witness ==
    /\ quizNav[1].questions = <<>>
    /\ route = "/quiz"
    /\ currentQuestionIndex = 4
    /\ lastEvent.op = "advance"

\* C27: a play session that is not exited eventually reaches the results
\* navigation, with or without clicks, whatever timeLimit its questions
\* carry.
C27_SessionCompletes == <>(route = "/results")

C29_HintCarriesSelectedOption ==
    (route = "/deep-dive") =>
        \A k \in 1..Len(hintRequests) :
            LET selectedIndex == userAnswers[hintRequests[k].id]
            IN /\ selectedIndex \in 0..(NumOptions - 1)
               /\ hintRequests[k].userAnswer = OptionTexts[selectedIndex + 1]

\* The requests in flight that the TopicInput instance on screen started.
PendingOfInstance == {k \in 1..Len(submits) : submits[k].instance = tiInstance}

\* C30 as stated: at most one quiz-generation request is in flight.
C30_OneRequestInFlight == Len(submits) <= 1

\* C30, for the instance on screen: no instance has two requests in flight,
\* and the instance on screen is generating exactly while its request is;
\* a submit with a blank or whitespace-only topic starts no request and
\* changes nothing; a request is started only by an instance that is not
\* generating, so a second one of the same instance only after the first
\* has failed.
C30_OneRequestPerInstance ==
    /\ [](/\ \A j, k \in 1..Len(submits) :
                (submits[j].instance = submits[k].instance) => j = k
          /\ (route = "/topic") => (isGenerating <=> PendingOfInstance # {}))
    /\ [][/\ (lastEvent'.op = "handleSubmit" /\ Trim(topic) = "") =>
                /\ lastEvent'.ignored
                /\ UNCHANGED <<tiVars, route, gameVars, resultsNav, ddVars,
                               genVars, fnVars, clVars, fxVars>>
          /\ (Len(submits') > Len(submits)) =>
                /\ route = "/topic"
                /\ ~isGenerating
                /\ PendingOfInstance = {}
                /\ Trim(topic) # ""
                /\ Len(submits') = Len(submits) + 1
                /\ submits'[Len(submits')].instance = tiInstance
                /\ isGenerating'
         ]_vars

\* The instance on screen has just started its request while the request of
\* an instance that was left is still in flight.
C30_Witness ==
    /\ route = "/topic"
    /\ isGenerating
    /\ lastEvent = [op |-> "handleSubmit", ignored |-> FALSE]
    /\ Len(submits) = 2
    /\ submits[1].instance # tiInstance
    /\ submits[2].instance = tiInstance

====
